---------------------------- MODULE Spec2Model ----------------------------
(***************************************************************************)
(* liquidatable-accounts-feed: the event loop of src/src/main.rs, the      *)
(* liquidation detector it drives (process_accounts, handle_result) and    *)
(* the ledger mirror (chain_data) it reads.                                *)
(*                                                                         *)
(* Account payloads are opaque byte strings in the program.  Here each     *)
(* payload is a named value, and the operators Owner, Size, Tag, ...       *)
(* give what the program reads out of its bytes.                           *)
(***************************************************************************)
EXTENDS Integers, Sequences, FiniteSets, TLC

VARIABLES
    chain_data,             \* main.rs:305  the mirror: [accounts, slots]
    mango_accounts,         \* main.rs:306  the tracked-key set
    currently_liquidatable, \* main.rs:307  the LiquidatableSet
    one_snapshot_done,      \* main.rs:309  FALSE = ColdStart, TRUE = Live
    crashed,                \* the loop thread has panicked (an unwrap failed)
    msg,                    \* history: the message handled by the last step
    sent,                   \* history: the events tx.send was given in the last step
    events,                 \* history: every event tx.send was given, in order
    tried,                  \* history: the keys the last step's for loop went over
    lastEval,               \* history: per key, the sign of its last successful evaluation
    handled,                \* history: how many messages have been handled
    phase,                  \* "loop" in Spec; the position of the detector specifications
    evals,                  \* SpecApply: the evaluation results still to be applied
    log,                    \* SpecApply: <<evaluation number, event>> for every event sent
    keysArg,                \* SpecProcess: the key list handed to process_accounts
    receivers,              \* the subscribers of the notification bus now receiving
    delivered               \* history: the events a subscriber received, in order

vars == <<chain_data, mango_accounts, currently_liquidatable, one_snapshot_done,
          crashed, msg, sent, events, tried, lastEval, handled, phase, evals, log,
          keysArg, receivers, delivered>>

----------------------------------------------------------------------------
(* Bounds of the model *)

MaxMsgs == 4

MaxEvals == 6

MaxUpdates == 4

MaxReceivers == 1

----------------------------------------------------------------------------
(* Keys, slots, payloads *)

mango_program_id == "mango"

mango_group_id == "group"

mango_cache_id == "cache"

OpenOrdersKey == "oo"

MarginKeys == {"K1", "K2", "K3"}

Keys == MarginKeys \cup {mango_group_id, mango_cache_id, OpenOrdersKey}

Slots == {10, 11}

Versions == {0, 1}

Processed == 0

Confirmed == 1

Rooted == 2

Statuses == {Processed, Confirmed, Rooted}

Payloads ==
    {"group", "cache0", "cacheM", "cacheBad", "acctZero", "acctNeg", "acctBL",
     "acctOO", "acctErr", "acctH", "acctShort", "empty", "unk", "ooOk", "ooBad"}

\* account.owner()
Owner(d) == IF d \in {"ooOk", "ooBad"} THEN "serum" ELSE "mango"

\* data.len(), as the layout whose size it equals ("zero": empty, "odd": no layout's)
Size(d) ==
    CASE d = "group" -> "MangoGroup"
      [] d \in {"cache0", "cacheM"} -> "MangoCache"
      [] d \in {"acctZero", "acctNeg", "acctBL", "acctOO", "acctErr", "acctH"}
            -> "MangoAccount"
      [] d = "ooOk" -> "OpenOrders"
      [] d = "empty" -> "zero"
      [] OTHER -> "odd"

\* DataType::try_from(data[0]): the discriminant, or "Err" for a byte that is none
Tag(d) ==
    CASE d = "group" -> "MangoGroup"
      [] d \in {"cache0", "cacheM", "cacheBad"} -> "MangoCache"
      [] d \in {"acctZero", "acctNeg", "acctBL", "acctOO", "acctErr", "acctH",
                "acctShort"} -> "MangoAccount"
      [] OTHER -> "Err"

\* MangoAccount.mango_group
GroupOf(d) == IF d = "acctH" THEN "otherGroup" ELSE mango_group_id

\* MangoAccount.being_liquidated
BeingLiquidated(d) == d = "acctBL"

\* MangoAccount.in_margin_basket[0]; spot_open_orders[0] is OpenOrdersKey
InMarginBasket(d) == d = "acctOO"

\* MangoGroup.num_oracles
NumOracles(d) == 1

\* data[0..5] == "serum"
SerumPrefix(d) == d \in {"ooOk"}

\* MangoCache: the price move the cache reports
Price(d) == IF d = "cacheM" THEN -1 ELSE 0

\* HealthCache::init_vals_with_orders_vec fails on this account
HealthFails(d) == d = "acctErr"

\* HealthCache::get_health at price 0, by health type
BaseHealth(d, health_type) ==
    CASE d = "acctNeg" -> -1
      [] d = "acctBL" -> IF health_type = "Init" THEN -1 ELSE 0
      [] OTHER -> 0

NotFound == "NotFound"


----------------------------------------------------------------------------
(* LedgerMirror (chain_data.rs is not part of the sources at hand; modelled *)
(* from the specification, section 4.1).  A write is                        *)
(* [slot, write_version, data]; the mirror retains every ingested write.    *)

NewChainData ==
    [accounts |-> [k \in Keys |-> {}], slots |-> [s \in Slots |-> Processed]]

\* A mirror that keeps the last ingested write of a key only
update_account_Overwrite(cd, pubkey, w) ==
    [cd EXCEPT !.accounts[pubkey] = {w}]

\* Pruning that drops the candidates of older slots whenever a slot gets a second
\* write, the authoritative one among them
update_account_PruneOlder(cd, pubkey, w) ==
    IF \E v \in cd.accounts[pubkey] : v.slot = w.slot
    THEN [cd EXCEPT !.accounts[pubkey] = {v \in @ : v.slot >= w.slot} \cup {w}]
    ELSE [cd EXCEPT !.accounts[pubkey] = @ \cup {w}]

\* update(write): the write becomes a retained candidate of its key
update_account(cd, pubkey, w) ==
    [cd EXCEPT !.accounts[pubkey] = @ \cup {w}]

\* update(slotStatus)
update_slot(cd, slot, status) == [cd EXCEPT !.slots[slot] = status]

\* A ranking that looks at the slot only
Newer_SlotOnly(w, v) == w.slot >= v.slot

\* w outranks v: higher slot, then higher write_version
Newer(w, v) ==
    \/ w.slot > v.slot
    \/ w.slot = v.slot /\ w.write_version >= v.write_version

\* The candidate of a pool that outranks the others
Best(pool) == CHOOSE w \in pool : \A v \in pool : Newer(w, v)

\* The resolution policy: the highest slot with status >= Confirmed, ties by the
\* highest write_version; with no such candidate, the highest Processed one.
BestWrite(cd, pubkey) ==
    LET settled == {w \in cd.accounts[pubkey] : cd.slots[w.slot] >= Confirmed}
    IN IF settled # {} THEN Best(settled) ELSE Best(cd.accounts[pubkey])

\* lookup(key) -> the authoritative payload | NotFound
account(cd, pubkey) ==
    IF cd.accounts[pubkey] = {} THEN NotFound ELSE BestWrite(cd, pubkey).data

\* (slot, write_version) names one write of a key: a second delivery of it carries
\* the same payload
Consistent(cd, pubkey, w) ==
    \A v \in cd.accounts[pubkey] :
        (v.slot = w.slot /\ v.write_version = w.write_version) => v.data = w.data

RECURSIVE MergeEntries(_, _, _)
MergeEntries(cd, slot, entries) ==
    IF entries = <<>> THEN cd
    ELSE MergeEntries(
            update_account(cd, Head(entries).pubkey,
                [slot |-> slot, write_version |-> 0, data |-> Head(entries).account]),
            slot, Tail(entries))

\* mergeSnapshot(slot, writes[]): each entry is a normal write at the snapshot's slot
update_from_snapshot(cd, snapshot) ==
    MergeEntries(cd, snapshot.slot, snapshot.accounts)

update_from_websocket(cd, message) ==
    IF message.type = "Account"
    THEN update_account(cd, message.pubkey,
            [slot |-> message.slot, write_version |-> message.write_version,
             data |-> message.account])
    ELSE update_slot(cd, message.slot, message.status)

----------------------------------------------------------------------------
(* Loading and classifying accounts (main.rs) *)

Err == [ok |-> FALSE]

Ok(v) == [ok |-> TRUE, val |-> v]

\* main.rs:58  size first, then the discriminant byte
load_mango_account(data_type, data) ==
    IF Size(data) # data_type THEN Err
    ELSE IF Tag(data) # data_type THEN Err
    ELSE Ok(data)

\* main.rs:82
load_mango_account_from_chain(data_type, cd, pubkey) ==
    IF account(cd, pubkey) = NotFound THEN Err
    ELSE load_mango_account(data_type, account(cd, pubkey))

\* main.rs:95
load_open_orders(data) ==
    IF Size(data) # "OpenOrders" THEN Err
    ELSE IF ~SerumPrefix(data) THEN Err
    ELSE Ok(data)

\* main.rs:115  one market pair: index 0 of in_margin_basket and spot_open_orders
get_open_orders(cd, group, acct) ==
    IF NumOracles(group) > 0 /\ InMarginBasket(acct)
    THEN IF account(cd, OpenOrdersKey) = NotFound THEN Err
         ELSE IF ~load_open_orders(account(cd, OpenOrdersKey)).ok THEN Err
         ELSE Ok(<<account(cd, OpenOrdersKey)>>)
    ELSE Ok(<<>>)

\* HealthCache::get_health (the supplied margin-health function)
get_health(group, cache, acct, health_type) ==
    BaseHealth(acct, health_type) + Price(cache)

\* main.rs:137
compute_liquidatable(group, cache, acct, open_orders) ==
    IF HealthFails(acct) THEN Err
    ELSE LET health_type == IF BeingLiquidated(acct) THEN "Init" ELSE "Maint"
             health == get_health(group, cache, acct, health_type)
         IN Ok([liquidatable |-> health < 0,
                being_liquidated |-> BeingLiquidated(acct),
                health |-> health])

\* is_mango_account without the test of the account's group
is_mango_account_AnyGroup(data, program_id, group_id) ==
    IF Owner(data) # program_id \/ Size(data) = "zero" THEN "None"
    ELSE IF Tag(data) = "Err" THEN "Panic"
    ELSE IF Tag(data) # "MangoAccount" THEN "None"
    ELSE IF Size(data) # "MangoAccount" THEN "None"
    ELSE "Some"

\* main.rs:231  "Some", "None", or "Panic" when try_from(data[0]).unwrap() fails
is_mango_account(data, program_id, group_id) ==
    IF Owner(data) # program_id \/ Size(data) = "zero" THEN "None"
    ELSE IF Tag(data) = "Err" THEN "Panic"
    ELSE IF Tag(data) # "MangoAccount" THEN "None"
    ELSE IF Size(data) # "MangoAccount" THEN "None"
    ELSE IF GroupOf(data) # group_id THEN "None"
    ELSE "Some"

\* main.rs:254  "true", "false", or "Panic"
is_mango_cache(data, program_id) ==
    IF Owner(data) # program_id \/ Size(data) = "zero" THEN "false"
    ELSE IF Tag(data) = "Err" THEN "Panic"
    ELSE IF Tag(data) = "MangoCache" THEN "true" ELSE "false"

----------------------------------------------------------------------------
(* LiquidationDetector (main.rs) *)

Start(k) == [type |-> "Start", account |-> k]

Stop(k) == [type |-> "Stop", account |-> k]

\* handle_result without the was_liquidatable test on the Start edge
handle_result_NoEdge(account_id, liquidatable_result, det) ==
    IF ~liquidatable_result.ok THEN det
    ELSE IF liquidatable_result.val.liquidatable
    THEN [liq |-> det.liq \cup {account_id},
          sent |-> Append(det.sent, Start(account_id))]
    ELSE IF account_id \in det.liq
    THEN [liq |-> det.liq \ {account_id},
          sent |-> Append(det.sent, Stop(account_id))]
    ELSE det

\* handle_result that sends Stop and forgets to remove the key
handle_result_KeepsKey(account_id, liquidatable_result, det) ==
    IF ~liquidatable_result.ok THEN det
    ELSE IF liquidatable_result.val.liquidatable /\ account_id \notin det.liq
    THEN [liq |-> det.liq \cup {account_id},
          sent |-> Append(det.sent, Start(account_id))]
    ELSE IF ~liquidatable_result.val.liquidatable /\ account_id \in det.liq
    THEN [liq |-> det.liq, sent |-> Append(det.sent, Stop(account_id))]
    ELSE det

\* handle_result whose second test reads !was_liquidatable
handle_result_StopWhenAbsent(account_id, liquidatable_result, det) ==
    IF ~liquidatable_result.ok THEN det
    ELSE IF liquidatable_result.val.liquidatable /\ account_id \notin det.liq
    THEN [liq |-> det.liq \cup {account_id},
          sent |-> Append(det.sent, Start(account_id))]
    ELSE IF ~liquidatable_result.val.liquidatable /\ account_id \notin det.liq
    THEN [liq |-> det.liq \ {account_id},
          sent |-> Append(det.sent, Stop(account_id))]
    ELSE det

\* handle_result that takes a failed evaluation for "not liquidatable"
handle_result_ErrStops(account_id, liquidatable_result, det) ==
    IF account_id \in det.liq
          /\ (~liquidatable_result.ok \/ ~liquidatable_result.val.liquidatable)
    THEN [liq |-> det.liq \ {account_id},
          sent |-> Append(det.sent, Stop(account_id))]
    ELSE IF liquidatable_result.ok /\ liquidatable_result.val.liquidatable
            /\ account_id \notin det.liq
    THEN [liq |-> det.liq \cup {account_id},
          sent |-> Append(det.sent, Start(account_id))]
    ELSE det

\* handle_result changing the set only when the event can be published
handle_result_NeedsReceiver(account_id, liquidatable_result, det) ==
    IF ~liquidatable_result.ok THEN det
    ELSE IF liquidatable_result.val.liquidatable /\ account_id \notin det.liq
    THEN [liq |-> IF receivers > 0 THEN det.liq \cup {account_id} ELSE det.liq,
          sent |-> Append(det.sent, Start(account_id))]
    ELSE IF ~liquidatable_result.val.liquidatable /\ account_id \in det.liq
    THEN [liq |-> IF receivers > 0 THEN det.liq \ {account_id} ELSE det.liq,
          sent |-> Append(det.sent, Stop(account_id))]
    ELSE det

\* main.rs:161  det = [liq: the LiquidatableSet, sent: the events given to tx.send]
handle_result(account_id, liquidatable_result, det) ==
    IF ~liquidatable_result.ok THEN det
    ELSE LET res == liquidatable_result.val
             was_liquidatable == account_id \in det.liq
         IN IF res.liquidatable /\ ~was_liquidatable
            THEN [liq |-> det.liq \cup {account_id},
                  sent |-> Append(det.sent, Start(account_id))]
            ELSE IF ~res.liquidatable /\ was_liquidatable
            THEN [liq |-> det.liq \ {account_id},
                  sent |-> Append(det.sent, Stop(account_id))]
            ELSE det

\* main.rs:205-224  the health evaluation of one key of the loop, or Err
evaluate(cd, group, cache, pubkey) ==
    LET account_result == load_mango_account_from_chain("MangoAccount", cd, pubkey)
    IN IF ~account_result.ok THEN Err
       ELSE LET oos == get_open_orders(cd, group, account_result.val)
            IN IF ~oos.ok THEN Err
               ELSE compute_liquidatable(group, cache, account_result.val, oos.val)

\* The for loop leaving at the first key that fails (`?` in place of `continue`)
RECURSIVE process_each_Abort(_, _, _, _, _)
process_each_Abort(cd, group, cache, accounts, det) ==
    IF accounts = <<>> THEN det
    ELSE IF ~evaluate(cd, group, cache, Head(accounts)).ok THEN det
    ELSE process_each_Abort(cd, group, cache, Tail(accounts),
            handle_result(Head(accounts),
                          evaluate(cd, group, cache, Head(accounts)), det))

\* main.rs:204  the for loop: a key that fails is skipped
RECURSIVE process_each(_, _, _, _, _)
process_each(cd, group, cache, accounts, det) ==
    IF accounts = <<>> THEN det
    ELSE process_each(cd, group, cache, Tail(accounts),
            handle_result(Head(accounts),
                          evaluate(cd, group, cache, Head(accounts)), det))

\* main.rs:197-202  both loads must succeed before any key is looked at
GroupAndCacheLoad(cd, group_id, cache_id) ==
    /\ load_mango_account_from_chain("MangoGroup", cd, group_id).ok
    /\ load_mango_account_from_chain("MangoCache", cd, cache_id).ok

\* process_accounts going on with whatever the mirror holds when a load fails
process_accounts_NoLoadCheck(cd, group_id, cache_id, accounts, det) ==
    process_each(cd, account(cd, group_id), account(cd, cache_id), accounts, det)

\* main.rs:189
process_accounts(cd, group_id, cache_id, accounts, det) ==
    IF ~GroupAndCacheLoad(cd, group_id, cache_id) THEN det
    ELSE process_each(cd,
            load_mango_account_from_chain("MangoGroup", cd, group_id).val,
            load_mango_account_from_chain("MangoCache", cd, cache_id).val,
            accounts, det)

----------------------------------------------------------------------------
(* Messages of the two input streams *)

\* The payloads the account stream delivers for a key
WsPayloads(k) ==
    CASE k = mango_cache_id -> {"cache0", "cacheM", "cacheBad"}
      [] k = OpenOrdersKey -> {"ooBad"}
      [] k = "K1" -> {"acctZero", "acctNeg", "empty"}
      [] k = "K2" -> {"acctOO", "acctBL", "acctErr", "unk"}
      [] k = "K3" -> {"acctH"}
      [] k = mango_group_id -> {"group"}
      [] OTHER -> {}

\* The write versions the account stream delivers for a key
WsVersions(k) == IF k = "K1" THEN Versions ELSE {0}

\* websocket_source::Message::Account
AccountMessages ==
    UNION {{[type |-> "Account", pubkey |-> k, slot |-> s, write_version |-> v,
             account |-> d] : s \in Slots, v \in WsVersions(k), d \in WsPayloads(k)} :
           k \in Keys}

\* websocket_source::Message::Slot (the parent link plays no part in the policy)
SlotMessages ==
    {[type |-> "Slot", slot |-> s, status |-> st] :
        s \in Slots, st \in Statuses \ {Processed}}

Entry(k, d) == [pubkey |-> k, account |-> d]

\* The account lists the snapshot stream delivers: the program's accounts, or the
\* open-orders accounts
SnapshotContents ==
    { <<Entry(mango_group_id, "group"), Entry(mango_cache_id, "cache0")>>,
      <<Entry(mango_group_id, "group"), Entry(mango_cache_id, "cacheM"),
        Entry("K1", "acctNeg"), Entry("K2", "acctOO"), Entry("K3", "acctZero")>>,
      <<Entry("K1", "acctZero"), Entry("K2", "unk"), Entry("K3", "acctNeg")>>,
      <<Entry(OpenOrdersKey, "ooOk")>> }

\* snapshot_source.rs:19  AccountSnapshot
SnapshotMessages ==
    {[type |-> "Snapshot", slot |-> s, accounts |-> a] :
        s \in Slots, a \in SnapshotContents}

NoMessage == [type |-> "None"]

\* The orders in which a HashSet's iterator may yield its keys
RECURSIVE Orders(_)
Orders(S) ==
    IF S = {} THEN {<<>>}
    ELSE UNION {{<<k>> \o rest : rest \in Orders(S \ {k})} : k \in S}

----------------------------------------------------------------------------
(* History kept beside the program's state *)

NoDet == [liq |-> currently_liquidatable, sent |-> <<>>]

\* The sign of a successful evaluation
Sign(res) == IF res.val.liquidatable THEN "neg" ELSE "nonneg"

\* lastEval after process_accounts has run on cd over the keys `accounts`: the keys
\* whose evaluation succeeded take its sign
NoteEvals(cd, accounts) ==
    IF accounts = {} \/ ~GroupAndCacheLoad(cd, mango_group_id, mango_cache_id)
    THEN lastEval
    ELSE [k \in Keys |->
            IF k \notin accounts THEN lastEval[k]
            ELSE LET res == evaluate(cd, account(cd, mango_group_id),
                                     account(cd, mango_cache_id), k)
                 IN IF res.ok THEN Sign(res) ELSE lastEval[k]]

\* The keys the for loop of process_accounts goes over: none when a load fails
Tried(cd, accounts) ==
    IF accounts = {} \/ ~GroupAndCacheLoad(cd, mango_group_id, mango_cache_id)
    THEN {} ELSE accounts

Range(f) == {f[i] : i \in DOMAIN f}

DetectorIdle == UNCHANGED <<phase, evals, log, keysArg>>

\* main.rs:176, 183  `let _ = tx.send(..)` for each event of evs: with no receiver
\* send returns an error, which is dropped, and the event is lost
Publish(evs) ==
    delivered' = (IF receivers > 0 THEN delivered \o evs ELSE delivered)

----------------------------------------------------------------------------
(* The event loop (main.rs:312-388): one message is handled per step *)

Init ==
    /\ chain_data = NewChainData
    /\ mango_accounts = {}
    /\ currently_liquidatable = {}
    /\ one_snapshot_done = FALSE
    /\ crashed = FALSE
    /\ msg = NoMessage
    /\ sent = <<>>
    /\ events = <<>>
    /\ tried = {}
    /\ lastEval = [k \in Keys |-> "none"]
    /\ handled = 0
    /\ phase = "loop"
    /\ evals = <<>>
    /\ log = <<>>
    /\ keysArg = <<>>
    /\ receivers = 0
    /\ delivered = <<>>

CanHandle == phase = "loop" /\ ~crashed /\ handled < MaxMsgs

\* The loop thread panics: nothing more is handled
Panic ==
    /\ crashed' = TRUE
    /\ sent' = <<>>
    /\ tried' = {}
    /\ UNCHANGED <<currently_liquidatable, one_snapshot_done, events, lastEval,
                   delivered>>

\* The loop without its cold-start gate
ColdStart_Never == FALSE

\* main.rs:328, 344  `if !one_snapshot_done { continue; }`
ColdStart == ~one_snapshot_done

\* The evaluation reading the delta's own payload in place of the mirror's write
SingleView_Payload(cd, m) ==
    [cd EXCEPT !.accounts[m.pubkey] =
        {[slot |-> m.slot, write_version |-> m.write_version, data |-> m.account]}]

\* main.rs:332  the chain data the evaluation of the delta's key reads
SingleView(cd, m) == cd

\* A margin-account delta sweeping every tracked key
SingleKeys_All(m, order) == CHOOSE o \in Orders(mango_accounts \cup {m.pubkey}) : TRUE

\* main.rs:335  std::iter::once(&account_write.pubkey)
SingleKeys(m, order) == <<m.pubkey>>

\* The sweep going over the LiquidatableSet in place of the tracked keys
SweepKeys_Members(m, order) ==
    SelectSeq(order, LAMBDA k : k \in currently_liquidatable)

\* main.rs:360  mango_accounts.iter(), yielding the tracked keys in `order`
SweepKeys(m, order) == order

\* The insert placed after the cold-start `continue`
Track_LiveOnly(kind, m) ==
    IF kind = "Some" /\ one_snapshot_done THEN mango_accounts \cup {m.pubkey}
    ELSE mango_accounts

\* The Account arm without the insert
Track_Never(kind, m) == mango_accounts

\* main.rs:324-326  mango_accounts.insert(account_write.pubkey)
Track(kind, m) ==
    IF kind = "Some" THEN mango_accounts \cup {m.pubkey} ELSE mango_accounts

\* main.rs:323-367  the Account arm, after chain_data has been updated to cd.
\* order is the order in which mango_accounts.iter() yields the keys.
AccountArm(cd, m, order) ==
    LET kind == is_mango_account(m.account, mango_program_id, mango_group_id)
        tracked == Track(kind, m)
        single == kind = "Some" /\ ~ColdStart
        det1 == IF single
                THEN process_accounts(SingleView(cd, m), mango_group_id,
                                      mango_cache_id, SingleKeys(m, order), NoDet)
                ELSE NoDet
        cache_check == /\ ~(kind = "Some" /\ ColdStart)
                       /\ m.pubkey = mango_cache_id
        sweep == /\ cache_check
                 /\ is_mango_cache(m.account, mango_program_id) = "true"
                 /\ ~ColdStart
        det2 == IF sweep
                THEN process_accounts(cd, mango_group_id, mango_cache_id,
                                      SweepKeys(m, order), det1)
                ELSE det1
        looked == (IF single THEN Range(SingleKeys(m, order)) ELSE {})
                  \cup (IF sweep THEN Range(SweepKeys(m, order)) ELSE {})
    IN IF kind = "Panic"
       THEN Panic /\ UNCHANGED mango_accounts
       ELSE IF cache_check /\ is_mango_cache(m.account, mango_program_id) = "Panic"
       THEN Panic /\ mango_accounts' = tracked
       ELSE /\ mango_accounts' = tracked
            /\ \E det \in {det2} :
                  /\ currently_liquidatable' = det.liq
                  /\ sent' = det.sent
                  /\ events' = events \o det.sent
                  /\ Publish(det.sent)
            /\ \E keys \in {looked} :
                  /\ tried' = Tried(cd, keys)
                  /\ lastEval' = NoteEvals(cd, keys)
            /\ UNCHANGED <<one_snapshot_done, crashed>>

\* main.rs:314-370  an account write arrives on the websocket stream
WebsocketAccount(m) ==
    /\ CanHandle
    /\ Consistent(chain_data, m.pubkey,
            [slot |-> m.slot, write_version |-> m.write_version, data |-> m.account])
    /\ \E cd \in {update_from_websocket(chain_data, m)} :
          /\ chain_data' = cd
          /\ \E order \in (IF m.pubkey = mango_cache_id /\ one_snapshot_done
                           THEN Orders(mango_accounts) ELSE {<<>>}) :
                AccountArm(cd, m, order)
    /\ msg' = m
    /\ handled' = handled + 1
    /\ UNCHANGED receivers
    /\ DetectorIdle

\* main.rs:314-370  a slot status arrives on the websocket stream: the mirror only
WebsocketSlot(m) ==
    /\ CanHandle
    /\ m.status >= chain_data.slots[m.slot]
    /\ chain_data' = update_from_websocket(chain_data, m)
    /\ msg' = m
    /\ sent' = <<>>
    /\ tried' = {}
    /\ handled' = handled + 1
    /\ UNCHANGED <<mango_accounts, currently_liquidatable, one_snapshot_done, crashed,
                   events, lastEval, receivers, delivered>>
    /\ DetectorIdle

\* main.rs:375-380  the scan of a snapshot's entries, stopped by a panic
RECURSIVE ScanSnapshot(_, _)
ScanSnapshot(entries, tracked) ==
    IF entries = <<>> THEN [panic |-> FALSE, tracked |-> tracked]
    ELSE LET kind == is_mango_account(Head(entries).account, mango_program_id,
                                      mango_group_id)
         IN IF kind = "Panic" THEN [panic |-> TRUE, tracked |-> tracked]
            ELSE ScanSnapshot(Tail(entries),
                    IF kind = "Some" THEN tracked \cup {Head(entries).pubkey}
                    ELSE tracked)

\* A snapshot flipping the flag
SnapshotDone_Toggle == ~one_snapshot_done

\* main.rs:383  one_snapshot_done = true
SnapshotDone == TRUE

\* main.rs:371-386  a snapshot arrives on the snapshot stream
Snapshot(m) ==
    /\ CanHandle
    /\ \A i \in 1..Len(m.accounts) :
            Consistent(chain_data, m.accounts[i].pubkey,
                [slot |-> m.slot, write_version |-> 0, data |-> m.accounts[i].account])
    /\ LET scan == ScanSnapshot(m.accounts, mango_accounts)
       IN /\ mango_accounts' = scan.tracked
          /\ IF scan.panic
             THEN /\ crashed' = TRUE
                  /\ UNCHANGED <<chain_data, one_snapshot_done>>
             ELSE /\ chain_data' = update_from_snapshot(chain_data, m)
                  /\ one_snapshot_done' = SnapshotDone
                  /\ UNCHANGED crashed
    /\ msg' = m
    /\ sent' = <<>>
    /\ tried' = {}
    /\ handled' = handled + 1
    /\ UNCHANGED <<currently_liquidatable, events, lastEval, receivers, delivered>>
    /\ DetectorIdle

Next ==
    \/ \E m \in AccountMessages : WebsocketAccount(m)
    \/ \E m \in SlotMessages : WebsocketSlot(m)
    \/ \E m \in SnapshotMessages : Snapshot(m)

Spec == Init /\ [][Next]_vars

----------------------------------------------------------------------------
(* handle_result as a function: a sequence of evaluation results of one key is *)
(* applied to the LiquidatableSet, one result per step                         *)

KeyUnderTest == "K1"

Liquidatable == compute_liquidatable("group", "cache0", "acctNeg", <<>>)

NotLiquidatable == compute_liquidatable("group", "cache0", "acctZero", <<>>)

Failed == compute_liquidatable("group", "cache0", "acctErr", <<>>)

ResultChoices == {Liquidatable, NotLiquidatable, Failed}

SeqsUpTo(S, n) == UNION {[1..len -> S] : len \in 0..n}

InitApply ==
    /\ chain_data = NewChainData
    /\ mango_accounts = {}
    /\ currently_liquidatable = {}
    /\ one_snapshot_done = FALSE
    /\ crashed = FALSE
    /\ msg = NoMessage
    /\ sent = <<>>
    /\ events = <<>>
    /\ tried = {}
    /\ lastEval = [k \in Keys |-> "none"]
    /\ handled = 0
    /\ phase = "apply"
    /\ evals \in SeqsUpTo(ResultChoices, MaxEvals)
    /\ log = <<>>
    /\ keysArg = <<>>
    /\ receivers = 0
    /\ delivered = <<>>

\* main.rs:225  the next result of evals is handed to handle_result
ApplyResult ==
    /\ phase = "apply"
    /\ handled < Len(evals)
    /\ \E det \in {handle_result(KeyUnderTest, evals[handled + 1], NoDet)} :
          /\ currently_liquidatable' = det.liq
          /\ sent' = det.sent
          /\ events' = events \o det.sent
          /\ log' = log \o [i \in 1..Len(det.sent) |-> <<handled + 1, det.sent[i].type>>]
          /\ Publish(det.sent)
    /\ handled' = handled + 1
    /\ UNCHANGED <<chain_data, mango_accounts, one_snapshot_done, crashed, msg, tried,
                   lastEval, phase, evals, keysArg, receivers>>

BusOnly ==
    UNCHANGED <<chain_data, mango_accounts, currently_liquidatable, one_snapshot_done,
                crashed, msg, sent, events, tried, lastEval, handled, phase, evals,
                log, keysArg, delivered>>

\* A client of the notification stream starts receiving
ClientConnects ==
    /\ phase = "apply"
    /\ receivers < MaxReceivers
    /\ receivers' = receivers + 1
    /\ BusOnly

\* A client of the notification stream goes away
ClientDisconnects ==
    /\ phase = "apply"
    /\ receivers > 0
    /\ receivers' = receivers - 1
    /\ BusOnly

NextApply == ApplyResult \/ ClientConnects \/ ClientDisconnects

SpecApply == InitApply /\ [][NextApply]_vars

----------------------------------------------------------------------------
(* process_accounts as a function: it is run once over a key list, on a mirror *)
(* that holds one write per key                                                *)

\* What the mirror holds for a key when process_accounts is called
ProcessChoices(k) ==
    CASE k = mango_group_id -> {"group", NotFound}
      [] k = mango_cache_id -> {"cache0", "cacheM", "cacheBad"}
      [] k = OpenOrdersKey -> {"ooOk", "ooBad", NotFound}
      [] k = "K1" -> {"acctZero", "acctNeg", "acctOO", "acctShort", NotFound}
      [] k = "K2" -> {"acctZero", "acctNeg", "acctOO", "acctErr", "empty"}
      [] OTHER -> {"acctZero", "acctNeg", "acctBL"}

MirrorOf(f) ==
    [accounts |-> [k \in Keys |->
        IF f[k] = NotFound THEN {}
        ELSE {[slot |-> 10, write_version |-> 0, data |-> f[k]]}],
     slots |-> [s \in Slots |-> Processed]]

ProcessMirrors ==
    {MirrorOf([k \in Keys |->
                CASE k = mango_group_id -> g
                  [] k = mango_cache_id -> c
                  [] k = OpenOrdersKey -> o
                  [] k = "K1" -> a1
                  [] k = "K2" -> a2
                  [] OTHER -> a3]) :
        g \in ProcessChoices(mango_group_id), c \in ProcessChoices(mango_cache_id),
        o \in ProcessChoices(OpenOrdersKey), a1 \in ProcessChoices("K1"),
        a2 \in ProcessChoices("K2"), a3 \in ProcessChoices("K3")}

KeyLists == UNION {Orders(S) : S \in SUBSET MarginKeys}

InitProcess ==
    /\ chain_data \in ProcessMirrors
    /\ mango_accounts = MarginKeys
    /\ currently_liquidatable \in SUBSET MarginKeys
    /\ one_snapshot_done = TRUE
    /\ crashed = FALSE
    /\ msg = NoMessage
    /\ sent = <<>>
    /\ events = <<>>
    /\ tried = {}
    /\ lastEval = [k \in Keys |-> "none"]
    /\ handled = 0
    /\ phase = "process"
    /\ evals = <<>>
    /\ log = <<>>
    /\ keysArg \in KeyLists
    /\ receivers = 0
    /\ delivered = <<>>

\* main.rs:189-229  one call of process_accounts over keysArg
ProcessAccounts ==
    /\ phase = "process"
    /\ \E det \in {process_accounts(chain_data, mango_group_id, mango_cache_id,
                                    keysArg, NoDet)} :
          /\ currently_liquidatable' = det.liq
          /\ sent' = det.sent
          /\ events' = events \o det.sent
          /\ Publish(det.sent)
    /\ tried' = Tried(chain_data, Range(keysArg))
    /\ lastEval' = NoteEvals(chain_data, Range(keysArg))
    /\ phase' = "processed"
    /\ handled' = handled + 1
    /\ UNCHANGED <<chain_data, mango_accounts, one_snapshot_done, crashed, msg, evals,
                   log, keysArg, receivers>>

NextProcess == ProcessAccounts

SpecProcess == InitProcess /\ [][NextProcess]_vars

----------------------------------------------------------------------------
(* The mirror by itself: account writes, slot statuses and snapshots are      *)
(* ingested one per step, as main.rs:319 and main.rs:382 hand them to it      *)

MirrorKeys == {"K1", "K2"}

MirrorPayloads == {"acctZero", "acctNeg"}

MirrorWrites ==
    {[type |-> "Account", pubkey |-> k, slot |-> s, write_version |-> v,
      account |-> d] :
        k \in MirrorKeys, s \in Slots, v \in Versions, d \in MirrorPayloads}

MirrorSnapshots ==
    {[type |-> "Snapshot", slot |-> s, accounts |-> a] :
        s \in Slots,
        a \in { <<Entry("K1", "acctZero")>>,
                <<Entry("K1", "acctNeg"), Entry("K2", "acctZero")>> }}

\* Every entry of snapshot m names a write the mirror does not hold with another
\* payload
ConsistentSnapshot(cd, m) ==
    \A i \in 1..Len(m.accounts) :
        Consistent(cd, m.accounts[i].pubkey,
            [slot |-> m.slot, write_version |-> 0, data |-> m.accounts[i].account])

InitMirror ==
    /\ chain_data = NewChainData
    /\ mango_accounts = {}
    /\ currently_liquidatable = {}
    /\ one_snapshot_done = FALSE
    /\ crashed = FALSE
    /\ msg = NoMessage
    /\ sent = <<>>
    /\ events = <<>>
    /\ tried = {}
    /\ lastEval = [k \in Keys |-> "none"]
    /\ handled = 0
    /\ phase = "mirror"
    /\ evals = <<>>
    /\ log = <<>>
    /\ keysArg = <<>>
    /\ receivers = 0
    /\ delivered = <<>>

MirrorIdle ==
    UNCHANGED <<mango_accounts, currently_liquidatable, one_snapshot_done, crashed,
                sent, events, tried, lastEval, phase, evals, log, keysArg, receivers,
                delivered>>

\* main.rs:319  chain_data.update_from_websocket(message), an account write
MirrorAccount(m) ==
    /\ phase = "mirror"
    /\ handled < MaxUpdates
    /\ Consistent(chain_data, m.pubkey,
            [slot |-> m.slot, write_version |-> m.write_version, data |-> m.account])
    /\ chain_data' = update_from_websocket(chain_data, m)
    /\ msg' = m
    /\ handled' = handled + 1
    /\ MirrorIdle

\* main.rs:319  chain_data.update_from_websocket(message), a slot status
MirrorSlot(m) ==
    /\ phase = "mirror"
    /\ handled < MaxUpdates
    /\ m.status >= chain_data.slots[m.slot]
    /\ chain_data' = update_from_websocket(chain_data, m)
    /\ msg' = m
    /\ handled' = handled + 1
    /\ MirrorIdle

\* main.rs:382  chain_data.update_from_snapshot(message)
MirrorSnapshot(m) ==
    /\ phase = "mirror"
    /\ handled < MaxUpdates
    /\ ConsistentSnapshot(chain_data, m)
    /\ chain_data' = update_from_snapshot(chain_data, m)
    /\ msg' = m
    /\ handled' = handled + 1
    /\ MirrorIdle

NextMirror ==
    \/ \E m \in MirrorWrites : MirrorAccount(m)
    \/ \E m \in SlotMessages : MirrorSlot(m)
    \/ \E m \in MirrorSnapshots : MirrorSnapshot(m)

SpecMirror == InitMirror /\ [][NextMirror]_vars

----------------------------------------------------------------------------
(* Vocabulary of the properties *)

\* The events sent so far for key k, in order
KeyEvents(k) == SelectSeq(events, LAMBDA e : e.account = k)

\* The events of the last step that are about key k
SentFor(evs, k) == {i \in 1..Len(evs) : evs[i].account = k}

IsMarginDelta(m) ==
    /\ m.type = "Account"
    /\ is_mango_account(m.account, mango_program_id, mango_group_id) = "Some"

IsCacheDelta(m) ==
    /\ m.type = "Account"
    /\ m.pubkey = mango_cache_id
    /\ is_mango_cache(m.account, mango_program_id) = "true"

WriteOf(m) == [slot |-> m.slot, write_version |-> m.write_version, data |-> m.account]

\* The health evaluation of key k on the mirror cd, as process_accounts makes it
EvalOn(cd, k) ==
    IF ~GroupAndCacheLoad(cd, mango_group_id, mango_cache_id) THEN Err
    ELSE evaluate(cd, account(cd, mango_group_id), account(cd, mango_cache_id), k)

HealthNegative(cd, k) == EvalOn(cd, k).ok /\ EvalOn(cd, k).val.liquidatable

HealthNonNegative(cd, k) == EvalOn(cd, k).ok /\ ~EvalOn(cd, k).val.liquidatable

\* The mirror as it would be if the write of delta m were the only one of its key
PayloadOnly(cd, m) == [cd EXCEPT !.accounts[m.pubkey] = {WriteOf(m)}]

\* This step handles one message of the loop
LoopStep == phase = "loop" /\ handled' = handled + 1

----------------------------------------------------------------------------
(* C1: cold-start gating.  Until the first snapshot has been handled no event *)
(* has been sent and the LiquidatableSet is empty, whatever deltas arrived.   *)
C1_ColdStartGating ==
    ~one_snapshot_done =>
        /\ events = <<>>
        /\ sent = <<>>
        /\ currently_liquidatable = {}

\* Before any snapshot, a shared-cache delta has been handled while a tracked key
\* has negative health on the mirror
C1_Witness ==
    /\ ~one_snapshot_done
    /\ IsCacheDelta(msg)
    /\ \E k \in mango_accounts : HealthNegative(chain_data, k)

(* C2: for every key the events sent for it alternate, beginning with Start: *)
(* no Start,Start, no Stop,Stop, and no Stop without a Start before it.      *)
C2_Alternation ==
    \A k \in Keys :
        \A i \in 1..Len(KeyEvents(k)) :
            KeyEvents(k)[i].type = (IF i % 2 = 1 THEN "Start" ELSE "Stop")

\* A key has had Start, Stop, Start
C2_Witness == \E k \in Keys : Len(KeyEvents(k)) >= 3

(* C3: a key is in the LiquidatableSet exactly when its most recent health     *)
(* evaluation returned health < 0; a key never evaluated is not a member.      *)
C3_MembershipMatchesLastEval ==
    \A k \in Keys : (k \in currently_liquidatable) <=> (lastEval[k] = "neg")

\* A key was a member, was then evaluated non-negative and is out, while another
\* key is a member
C3_Witness ==
    \E k \in Keys :
        /\ lastEval[k] = "nonneg"
        /\ Len(KeyEvents(k)) = 2
        /\ currently_liquidatable # {}

----------------------------------------------------------------------------
(* C4, under SpecApply *)

\* The last successful evaluation before the i-th, 0 when there is none
LastOk(i) ==
    IF \E j \in 1..(i - 1) : evals[j].ok
    THEN CHOOSE j \in 1..(i - 1) :
            evals[j].ok /\ \A h \in (j + 1)..(i - 1) : ~evals[h].ok
    ELSE 0

\* The key's membership when the i-th evaluation is applied: the flag of the last
\* successful evaluation, absent at first
MemberBefore(i) == LastOk(i) # 0 /\ evals[LastOk(i)].val.liquidatable

\* The evaluations among the first n whose flag differs from the membership
SignChanges(n) ==
    {i \in 1..n : evals[i].ok /\ evals[i].val.liquidatable # MemberBefore(i)}

ExpectedLog(n) ==
    [j \in 1..Cardinality(SignChanges(n)) |->
        LET i == CHOOSE c \in SignChanges(n) :
                    Cardinality({b \in SignChanges(n) : b < c}) = j - 1
        IN <<i, IF evals[i].val.liquidatable THEN "Start" ELSE "Stop">>]

SignsPlusPlusMinusMinusPlusMinus ==
    <<NotLiquidatable, NotLiquidatable, Liquidatable, Liquidatable, NotLiquidatable,
      Liquidatable>>

(* C4: handle_result is exact at sign changes.  From an absent key, an event is *)
(* sent at exactly the evaluations whose liquidatable flag differs from the     *)
(* key's membership (Start with insertion, Stop with removal) and at no other;  *)
(* the signs [+,+,-,-,+,-] give [Start, Stop, Start] at evaluations 3, 5, 6.    *)
C4_ExactAtSignChanges ==
    phase = "apply" =>
        /\ log = ExpectedLog(handled)
        /\ (KeyUnderTest \in currently_liquidatable) <=> MemberBefore(handled + 1)
        /\ (evals = SignsPlusPlusMinusMinusPlusMinus /\ handled = 6) =>
                log = << <<3, "Start">>, <<5, "Stop">>, <<6, "Start">> >>

\* The six evaluations [+,+,-,-,+,-] have been applied
C4_Witness ==
    /\ phase = "apply"
    /\ evals = SignsPlusPlusMinusMinusPlusMinus
    /\ handled = 6
    /\ Len(log) = 3

----------------------------------------------------------------------------
(* C5, under SpecProcess *)

KeyFails(cd, k) == ~EvalOn(cd, k).ok

Without(accounts, b) == SelectSeq(accounts, LAMBDA k : k # b)

(* C5: isolation in process_accounts.  When a key of the list fails, every     *)
(* other key is still evaluated and gets the membership change and the event   *)
(* it would have got had the failing key not been in the list.                 *)
C5_Isolation ==
    [][(phase = "process" /\ phase' = "processed") =>
        /\ \A b \in Range(keysArg) :
              KeyFails(chain_data, b) =>
                LET alone == process_accounts(chain_data, mango_group_id,
                                mango_cache_id, Without(keysArg, b), NoDet)
                IN /\ currently_liquidatable' = alone.liq
                   /\ sent' = alone.sent
        /\ GroupAndCacheLoad(chain_data, mango_group_id, mango_cache_id) =>
              \A k \in Range(keysArg) :
                ~KeyFails(chain_data, k) =>
                    /\ (k \in currently_liquidatable') <=> HealthNegative(chain_data, k)
                    /\ (\E i \in 1..Len(sent') : sent'[i] = Start(k))
                          <=> (HealthNegative(chain_data, k)
                                /\ k \notin currently_liquidatable)
                    /\ (\E i \in 1..Len(sent') : sent'[i] = Stop(k))
                          <=> (HealthNonNegative(chain_data, k)
                                /\ k \in currently_liquidatable)
      ]_vars

\* process_accounts has run over [A, B, C] with B failing, and A and C each got an
\* event
C5_Witness ==
    /\ phase = "processed"
    /\ Len(keysArg) = 3
    /\ KeyFails(chain_data, keysArg[2])
    /\ SentFor(sent, keysArg[1]) # {}
    /\ SentFor(sent, keysArg[3]) # {}
    /\ SentFor(sent, keysArg[2]) = {}

----------------------------------------------------------------------------
(* C6: an evaluation that fails for a key sends no event and leaves the key's *)
(* membership as it was; no event other than Start and Stop is ever sent.     *)
C6_FailureChangesNothing ==
    [][LoopStep =>
        /\ \A k \in tried' :
              KeyFails(chain_data', k) =>
                /\ (k \in currently_liquidatable') <=> (k \in currently_liquidatable)
                /\ SentFor(sent', k) = {}
        /\ \A i \in 1..Len(sent') : sent'[i].type \in {"Start", "Stop"}
      ]_vars

\* The evaluation of a member key has just failed, and the key is still a member
C6_Witness ==
    \E k \in tried :
        /\ KeyFails(chain_data, k)
        /\ k \in currently_liquidatable
        /\ sent = <<>>

----------------------------------------------------------------------------
----------------------------------------------------------------------------
(* C8: the mode goes from ColdStart to Live once, when the first snapshot is  *)
(* handled, and by no other message; once Live it stays Live.                 *)
C8_ColdStartToLiveOnce ==
    [][/\ one_snapshot_done => one_snapshot_done'
       /\ (~one_snapshot_done /\ one_snapshot_done') => msg'.type = "Snapshot"
       /\ (LoopStep /\ msg'.type = "Snapshot" /\ ~crashed') => one_snapshot_done'
      ]_vars

\* A snapshot has been handled after events were sent, that is in Live
C8_Witness ==
    /\ msg.type = "Snapshot"
    /\ one_snapshot_done
    /\ events # <<>>
    /\ ~crashed

----------------------------------------------------------------------------
(* C9: in Live, a delta recognized as a margin account evaluates that one key: *)
(* it changes the membership of, and sends an event for, the delta's key only. *)
C9_SingleKeyFrame ==
    [][(LoopStep /\ one_snapshot_done /\ IsMarginDelta(msg')) =>
        /\ tried' \subseteq {msg'.pubkey}
        /\ \A k \in Keys \ {msg'.pubkey} :
              /\ (k \in currently_liquidatable') <=> (k \in currently_liquidatable)
              /\ SentFor(sent', k) = {}
      ]_vars

\* A margin delta has sent an event for its key while another tracked key, with
\* health < 0 on the mirror, stays out of the set
C9_Witness ==
    /\ one_snapshot_done
    /\ IsMarginDelta(msg)
    /\ SentFor(sent, msg.pubkey) # {}
    /\ \E k \in mango_accounts \ {msg.pubkey} :
          HealthNegative(chain_data, k) /\ k \notin currently_liquidatable

----------------------------------------------------------------------------
(* C10: in Live, a delta for the shared cache account evaluates every tracked  *)
(* key in the same step: with group and cache loadable, every tracked key      *)
(* whose evaluation succeeded is then a member iff its health is < 0.          *)
C10_FullSweep ==
    (/\ IsCacheDelta(msg)
     /\ one_snapshot_done
     /\ ~crashed
     /\ GroupAndCacheLoad(chain_data, mango_group_id, mango_cache_id)) =>
        /\ tried = mango_accounts
        /\ \A k \in mango_accounts :
              ~KeyFails(chain_data, k) =>
                ((k \in currently_liquidatable) <=> HealthNegative(chain_data, k))

\* A shared-cache delta has swept three tracked keys: two got an event, one failed
C10_Witness ==
    /\ IsCacheDelta(msg)
    /\ one_snapshot_done
    /\ Cardinality(tried) = 3
    /\ Len(sent) = 2
    /\ \E k \in tried : KeyFails(chain_data, k)

----------------------------------------------------------------------------
(* The classifiers as the specification describes them: owner identity, the   *)
(* discriminant byte, the exact payload size and, for a margin account, the   *)
(* group it belongs to                                                        *)

MarginShape(d) ==
    /\ Owner(d) = mango_program_id
    /\ Tag(d) = "MangoAccount"
    /\ Size(d) = "MangoAccount"
    /\ GroupOf(d) = mango_group_id

CacheShape(d) ==
    /\ Owner(d) = mango_program_id
    /\ Tag(d) = "MangoCache"
    /\ Size(d) = "MangoCache"

----------------------------------------------------------------------------
(* C11: every snapshot message, the first and the later ones, adds the key of *)
(* each entry that is a margin account of the group to the tracked keys and   *)
(* merges all entries into the mirror: once it is handled every such key is   *)
(* tracked and every entry's key is found by lookup.                          *)
C11_SnapshotTracksAndMerges ==
    [][(LoopStep /\ msg'.type = "Snapshot") =>
        \A i \in 1..Len(msg'.accounts) :
            /\ MarginShape(msg'.accounts[i].account)
                    => msg'.accounts[i].pubkey \in mango_accounts'
            /\ account(chain_data', msg'.accounts[i].pubkey) # NotFound
      ]_vars

----------------------------------------------------------------------------
(* C12: the classifiers are total.  For every account write they answer yes   *)
(* or no and never stop the loop; any mismatch of owner, discriminant, size   *)
(* or group is a no.                                                          *)
C12_ClassifiersTotal ==
    /\ ~crashed
    /\ msg.type = "Account" =>
          /\ is_mango_account(msg.account, mango_program_id, mango_group_id)
                = (IF MarginShape(msg.account) THEN "Some" ELSE "None")
          /\ is_mango_cache(msg.account, mango_program_id)
                = (IF CacheShape(msg.account) THEN "true" ELSE "false")

----------------------------------------------------------------------------
(* C13: when the group account or the shared cache account is missing from   *)
(* the mirror or does not decode, process_accounts evaluates no key: no      *)
(* event is sent, no membership changes, and the loop is not stopped.        *)
C13_LoadFailureEvaluatesNothing ==
    [][(/\ LoopStep
        /\ one_snapshot_done
        /\ IsMarginDelta(msg') \/ IsCacheDelta(msg')
        /\ ~GroupAndCacheLoad(chain_data', mango_group_id, mango_cache_id)) =>
            /\ sent' = <<>>
            /\ currently_liquidatable' = currently_liquidatable
            /\ events' = events
            /\ ~crashed'
      ]_vars

\* In Live a delta has put an undecodable write in the place of the shared cache
\* while a member key, though its health is now unknown, stays a member
C13_Witness ==
    /\ one_snapshot_done
    /\ IsCacheDelta(msg)
    /\ ~GroupAndCacheLoad(chain_data, mango_group_id, mango_cache_id)
    /\ currently_liquidatable # {}
    /\ mango_accounts # {}
    /\ sent = <<>>
    /\ ~crashed

----------------------------------------------------------------------------
----------------------------------------------------------------------------
(* C18: the LiquidatableSet is a subset of the tracked keys.  Only tracked   *)
(* keys are evaluated, and no key ever leaves the tracked keys.              *)
C18_LiquidatableSubsetOfTracked ==
    [][/\ currently_liquidatable' \subseteq mango_accounts'
       /\ tried' \subseteq mango_accounts'
       /\ mango_accounts \subseteq mango_accounts'
      ]_vars

\* Two tracked keys are members and a third tracked key is not
C18_Witness ==
    /\ Cardinality(currently_liquidatable) = 2
    /\ Cardinality(mango_accounts) = 3

----------------------------------------------------------------------------
(* C19: a snapshot, a slot status, and an account delta that is neither a    *)
(* margin account of the group nor a write of the shared cache account run   *)
(* no detection: no event, no membership change, even when the message       *)
(* changes what lookup returns for a tracked key.                            *)
C19_NonDetectingMessages ==
    [][(/\ LoopStep
        /\ \/ msg'.type \in {"Snapshot", "Slot"}
           \/ /\ msg'.type = "Account"
              /\ ~MarginShape(msg'.account)
              /\ msg'.pubkey # mango_cache_id) =>
            /\ sent' = <<>>
            /\ events' = events
            /\ tried' = {}
            /\ currently_liquidatable' = currently_liquidatable
      ]_vars

\* A slot status has just turned the lookup of a tracked key, last evaluated
\* with health >= 0, to a write with health < 0: the key is still no member
C19_Witness ==
    /\ msg.type = "Slot"
    /\ \E k \in mango_accounts :
          /\ lastEval[k] = "nonneg"
          /\ HealthNegative(chain_data, k)
          /\ k \notin currently_liquidatable

----------------------------------------------------------------------------
(* C14 to C16, under SpecMirror *)

\* The slot of write w is Confirmed or Rooted in cd
Settled(cd, w) == cd.slots[w.slot] >= Confirmed

\* Write a has a higher priority than write b in cd: a settled slot before an
\* unsettled one, then the higher slot, then the higher write_version
Outranks(cd, a, b) ==
    \/ Settled(cd, a) /\ ~Settled(cd, b)
    \/ /\ Settled(cd, a) = Settled(cd, b)
       /\ \/ a.slot > b.slot
          \/ a.slot = b.slot /\ a.write_version > b.write_version

\* The writes a step hands to the mirror: <<key, write>>
WritesOf(m) ==
    CASE m.type = "Account" -> {<<m.pubkey, WriteOf(m)>>}
      [] m.type = "Snapshot" ->
            {<<m.accounts[i].pubkey,
               [slot |-> m.slot, write_version |-> 0, data |-> m.accounts[i].account]>> :
                i \in 1..Len(m.accounts)}
      [] OTHER -> {}

(* C14: freshness monotonicity.  Once lookup returns a write at slot S and S *)
(* is Rooted, an update with a write of the key at a slot < S leaves lookup  *)
(* as it was; and a write of lower priority than the authoritative one never *)
(* takes its place.                                                          *)
C14_FreshnessMonotone ==
    [][phase = "mirror" =>
        \A kw \in WritesOf(msg') :
            chain_data.accounts[kw[1]] # {} =>
                LET cur == BestWrite(chain_data, kw[1]) IN
                /\ (chain_data.slots[cur.slot] = Rooted /\ kw[2].slot < cur.slot)
                      => account(chain_data', kw[1]) = account(chain_data, kw[1])
                /\ Outranks(chain_data, cur, kw[2])
                      => BestWrite(chain_data', kw[1]) = cur
      ]_vars

\* Lookup returns a write at Rooted slot 11, and the delta just ingested is a
\* write of the key at slot 10 with another payload
C14_Witness ==
    /\ phase = "mirror"
    /\ msg.type = "Account"
    /\ msg.slot = 10
    /\ WriteOf(msg) \in chain_data.accounts[msg.pubkey]
    /\ chain_data.slots[11] = Rooted
    /\ BestWrite(chain_data, msg.pubkey).slot = 11
    /\ account(chain_data, msg.pubkey) # msg.account

(* C15: tie-break.  Of the writes of a key at one slot lookup never returns *)
(* one with a lower write_version than another; with two writes at the same *)
(* slot ingested, in either order, it returns the higher write_version.     *)
C15_TieBreak ==
    phase = "mirror" =>
        \A k \in MirrorKeys :
            /\ chain_data.accounts[k] # {} =>
                  \A v \in chain_data.accounts[k] :
                      v.slot = BestWrite(chain_data, k).slot
                          => v.write_version <= BestWrite(chain_data, k).write_version
            /\ \A a, b \in chain_data.accounts[k] :
                  (/\ chain_data.accounts[k] = {a, b}
                   /\ a.slot = b.slot
                   /\ a.write_version > b.write_version)
                      => account(chain_data, k) = a.data

\* Two updates: write_version 1 of a slot, then write_version 0 of the same slot
\* with another payload; lookup returns the first
C15_Witness ==
    /\ phase = "mirror"
    /\ handled = 2
    /\ msg.type = "Account"
    /\ msg.write_version = 0
    /\ \E a \in chain_data.accounts[msg.pubkey] :
          /\ a.slot = msg.slot
          /\ a.write_version = 1
          /\ a.data # msg.account
          /\ chain_data.accounts[msg.pubkey] = {a, WriteOf(msg)}
          /\ account(chain_data, msg.pubkey) = a.data

(* C16: snapshot idempotence.  From every mirror state, merging a snapshot  *)
(* twice gives for every key the lookup result of merging it once.          *)
C16_SnapshotIdempotent ==
    phase = "mirror" =>
        \A m \in MirrorSnapshots :
            ConsistentSnapshot(chain_data, m) =>
                \A k \in Keys :
                    account(update_from_snapshot(update_from_snapshot(chain_data, m), m), k)
                        = account(update_from_snapshot(chain_data, m), k)

\* The same snapshot has been merged a second time into a mirror where a key of
\* it has an older write that a Confirmed slot keeps authoritative
C16_Witness ==
    /\ phase = "mirror"
    /\ msg.type = "Snapshot"
    /\ handled >= 4
    /\ chain_data = update_from_snapshot(chain_data, msg)
    /\ Cardinality(chain_data.accounts["K1"]) = 2
    /\ account(chain_data, "K1") # msg.accounts[1].account

----------------------------------------------------------------------------
(* C20, under SpecApply *)

\* delivered is what a receiver got of events: evs with some events left out
RECURSIVE IsSubSeq(_, _)
IsSubSeq(sub, evs) ==
    IF sub = <<>> THEN TRUE
    ELSE IF evs = <<>> THEN FALSE
    ELSE IF Head(sub) = Head(evs) THEN IsSubSeq(Tail(sub), Tail(evs))
    ELSE IsSubSeq(sub, Tail(evs))

(* C20: the LiquidatableSet is updated whether or not the publish succeeds.  *)
(* With no receiver on the bus the event is lost, the key is inserted or     *)
(* removed all the same and the evaluation step is taken; an evaluation that *)
(* keeps the sign of the last one sends nothing, so a missed Start or Stop   *)
(* is not sent again.                                                        *)
C20_PublishFailureIgnored ==
    [][(phase = "apply" /\ handled' = handled + 1 /\ evals[handled + 1].ok) =>
        /\ (KeyUnderTest \in currently_liquidatable')
              <=> evals[handled + 1].val.liquidatable
        /\ (evals[handled + 1].val.liquidatable = MemberBefore(handled + 1))
              => sent' = <<>>
        /\ (evals[handled + 1].val.liquidatable # MemberBefore(handled + 1))
              => /\ Len(sent') = 1
                 /\ delivered' = (IF receivers = 0 THEN delivered
                                  ELSE delivered \o sent')
        /\ IsSubSeq(delivered', events')
      ]_vars

\* Three evaluations with health < 0, < 0, >= 0: the Start was sent with no
\* receiver on the bus and lost, the second evaluation sent nothing, and the Stop,
\* sent because the key had been inserted all the same, was received
C20_Witness ==
    /\ phase = "apply"
    /\ evals = <<Liquidatable, Liquidatable, NotLiquidatable>>
    /\ handled = 3
    /\ events = <<Start(KeyUnderTest), Stop(KeyUnderTest)>>
    /\ delivered = <<Stop(KeyUnderTest)>>
    /\ KeyUnderTest \notin currently_liquidatable

============================================================================
